---- MODULE Spec2Model ----
(***************************************************************************)
(* Model of ros2_generate_interface_docs: the compact-definition transform *)
(* of utils.py (generate_compact_definition and its helpers), the batch    *)
(* driver and the package index of main.py, resource_name and              *)
(* generate_interface_documentation of utils.py, the service text of       *)
(* srv_utils.py and the action definition of action_utils.py.              *)
(*                                                                         *)
(* Python str values are TLA+ strings; the string operations the code uses *)
(* (in, split, slicing, replace, upper, lower, join, str) are computed     *)
(* character by character below.                                           *)
(***************************************************************************)
EXTENDS Integers, Sequences, FiniteSets, TLC

VARIABLES
    IGNORED_KEYS,               \* utils.IGNORED_KEYS, the module-level list
    imported_interface,         \* argument of the running generate_compact_definition
    compact,                    \* the dict being filled
    fields_with_default_value,  \* second result of handle_constants_and_default_values
    idx,                        \* number of fields the loop has finished
    pc,                         \* "idle" | "fields" | "returned" | "raised"
    calls,                      \* number of calls of generate_compact_definition so far
    prev,                       \* the call before the current one: interface and outcome
    pcMain,                     \* main(): "main" | "generate_interfaces" | "css" | "done" | "aborted"
    kindIdx,                    \* number of generate_interfaces calls main has issued
    pending,                    \* interfaces the loops of generate_interfaces still visit
    last,                       \* the latest generate_interface_documentation: its run
    files,                      \* the output files: path and content of each
    resource,                   \* argument of resource_name
    resolved,                   \* what resource_name made of it
    imported_srv,               \* srv_utils: the service class, Request and Response
    buff,                       \* srv_utils: what has been written to buff, write by write
    ignored_keys,               \* srv_utils: the local list of line 49
    srvIdx,                     \* srv_utils: sub-messages the outer loop has finished
    srvPc,                      \* srv_utils: "idle" | "loop" | "returned" | "raised"
    message,                    \* action_utils: the parsed action, goal, result, feedback
    compact_srv,                \* action_utils: the merged dict, as its list of items
    actIdx,                     \* action_utils: attributes the loop has finished
    actPc,                      \* action_utils: "idle" | "loop" | "returned" | "raised"
    messages,                   \* generate_interfaces_index: package -> message names
    services,                   \* generate_interfaces_index: package -> service names
    actions,                    \* generate_interfaces_index: package -> action names
    interface_packages,         \* generate_interfaces_index: packages the loop has yet to visit
    index_pages,                \* the index pages written
    indexPc,                    \* generate_interfaces_index: "idle" | "loop" | "returned" | "raised"
    doc,                        \* generate_interface_documentation: its arguments and environment
    docSteps,                   \* generate_interface_documentation: the steps it has completed
    docPc                       \* generate_interface_documentation: "idle" | "running" | "returned" | "raised"

compactVars == <<IGNORED_KEYS, imported_interface, compact,
                 fields_with_default_value, idx, pc, calls, prev>>

batchVars == <<pcMain, kindIdx, pending, last>>

resourceVars == <<resource, resolved>>

\* What the transform and the driver leave alone.
srvVars == <<imported_srv, buff, ignored_keys, srvIdx, srvPc>>

actionVars == <<message, compact_srv, actIdx, actPc>>

indexVars == <<messages, services, actions, interface_packages, index_pages, indexPc>>

docVars == <<doc, docSteps, docPc>>

extVars == <<resourceVars, srvVars, actionVars, indexVars, docVars>>

vars == <<compactVars, batchVars, files, extVars>>

(***************************************************************************)
(* Bounds of the model.                                                    *)
(***************************************************************************)
MaxFields == 2
MaxCalls == 3
MaxPackages == 2
MaxInterfaces == 2
MaxTokens == 4

(***************************************************************************)
(* Python string operations.                                               *)
(***************************************************************************)
\* s[i] (1-based)
CharAt(s, i) == SubSeq(s, i, i)

\* sub in s
Contains(s, sub) ==
    \E i \in 1..(Len(s) - Len(sub) + 1) : SubSeq(s, i, i + Len(sub) - 1) = sub

\* s[:-1]
DropLast(s) == SubSeq(s, 1, Len(s) - 1)

\* s.split(sep) for a one-character sep
RECURSIVE SplitFrom(_, _, _, _)
SplitFrom(s, sep, start, i) ==
    IF i > Len(s) THEN <<SubSeq(s, start, Len(s))>>
    ELSE IF CharAt(s, i) = sep
         THEN <<SubSeq(s, start, i - 1)>> \o SplitFrom(s, sep, i + 1, i + 1)
         ELSE SplitFrom(s, sep, start, i + 1)

Split(s, sep) == SplitFrom(s, sep, 1, 1)

\* sep.join(parts)
RECURSIVE Join(_, _)
Join(parts, sep) ==
    IF Len(parts) = 0 THEN ""
    ELSE IF Len(parts) = 1 THEN parts[1]
    ELSE parts[1] \o sep \o Join(Tail(parts), sep)

\* s.replace(old, '')
RECURSIVE Remove(_, _)
Remove(s, old) ==
    IF Len(s) < Len(old) THEN s
    ELSE IF SubSeq(s, 1, Len(old)) = old
         THEN Remove(SubSeq(s, Len(old) + 1, Len(s)), old)
         ELSE CharAt(s, 1) \o Remove(SubSeq(s, 2, Len(s)), old)

LowerCase == "abcdefghijklmnopqrstuvwxyz"
UpperCase == "ABCDEFGHIJKLMNOPQRSTUVWXYZ"

CharOf(c, from, to) ==
    IF \E i \in 1..Len(from) : CharAt(from, i) = c
    THEN CharAt(to, CHOOSE i \in 1..Len(from) : CharAt(from, i) = c)
    ELSE c

RECURSIVE MapChars(_, _, _)
MapChars(s, from, to) ==
    IF Len(s) = 0 THEN ""
    ELSE CharOf(CharAt(s, 1), from, to) \o MapChars(SubSeq(s, 2, Len(s)), from, to)

\* s.lower(), s.upper()
Lower(s) == MapChars(s, UpperCase, LowerCase)
Upper(s) == MapChars(s, LowerCase, UpperCase)

Digits == "0123456789"

\* str(n) for an int
RECURSIVE NatToStr(_)
NatToStr(n) ==
    IF n < 10 THEN CharAt(Digits, n + 1)
    ELSE NatToStr(n \div 10) \o CharAt(Digits, (n % 10) + 1)

IntToStr(n) == IF n < 0 THEN "-" \o NatToStr(0 - n) ELSE NatToStr(n)

\* x in lst
InList(x, lst) == \E i \in 1..Len(lst) : lst[i] = x

(***************************************************************************)
(* Interface descriptions: what rosidl hands to the transform.             *)
(*                                                                         *)
(* A slot type is one record for every rosidl_parser.definition class:     *)
(*   wrap  "plain" | "array" (Array) | "useq" (UnboundedSequence)          *)
(*         | "bseq" (BoundedSequence); size is the array size / the bound  *)
(*   base  "basic" (BasicType) | "string" (Unbounded/BoundedString, bound  *)
(*         0 = unbounded) | "named" (NamespacedType pkg/kind/name)         *)
(***************************************************************************)
SlotType(wrap, size, base, name, bound, pkg, kind) ==
    [wrap |-> wrap, size |-> size, base |-> base, name |-> name,
     bound |-> bound, pkg |-> pkg, kind |-> kind]

BasicT(name) == SlotType("plain", 0, "basic", name, 0, "", "")
StringT(name, bound) == SlotType("plain", 0, "string", name, bound, "", "")
NamedT(pkg, kind, name) == SlotType("plain", 0, "named", name, 0, pkg, kind)
ArrayOf(t, n) == [t EXCEPT !.wrap = "array", !.size = n]
SequenceOf(t) == [t EXCEPT !.wrap = "useq"]
BoundedSequenceOf(t, n) == [t EXCEPT !.wrap = "bseq", !.size = n]

\* isinstance(slot_type, AbstractNestedType)
IsAbstractNestedType(t) == t.wrap # "plain"
\* isinstance(slot_type, BoundedSequence)
IsBoundedSequence(t) == t.wrap = "bseq"
\* slot_type.value_type
value_type(t) == [t EXCEPT !.wrap = "plain", !.size = 0]
\* isinstance(t, NamespacedType)
IsNamespacedType(t) == t.wrap = "plain" /\ t.base = "named"
\* NamespacedType.namespaced_name()
namespaced_name(t) == <<t.pkg, t.kind, t.name>>

\* The type string of one member in get_fields_and_field_types(): the
\* legacy encoding the transform parses.
ElementTypeString(t) ==
    CASE t.base = "basic" -> t.name
      [] t.base = "string" ->
            IF t.bound > 0 THEN t.name \o "<" \o IntToStr(t.bound) \o ">" ELSE t.name
      [] t.base = "named" -> t.pkg \o "/" \o t.name

FieldTypeString(t) ==
    CASE t.wrap = "plain" -> ElementTypeString(t)
      [] t.wrap = "array" -> ElementTypeString(t) \o "[" \o IntToStr(t.size) \o "]"
      [] t.wrap = "useq" -> "sequence<" \o ElementTypeString(t) \o ">"
      [] t.wrap = "bseq" ->
            "sequence<" \o ElementTypeString(t) \o ", " \o IntToStr(t.size) \o ">"

\* Python values stored in the class: an int, an array.array of ints, or
\* any other object (methods, descriptors, ...).
IntValue(v) == [kind |-> "scalar", elems |-> <<v>>]
ArrayValue(vs) == [kind |-> "array", elems |-> vs]
NoDefault == [kind |-> "none", elems |-> <<>>]
SomeObject == [kind |-> "object", elems |-> <<>>]

\* str(value)
RECURSIVE StrEach(_)
StrEach(vs) == IF Len(vs) = 0 THEN <<>> ELSE <<IntToStr(Head(vs))>> \o StrEach(Tail(vs))

\* str(list)
StrList(vs) == "[" \o Join(StrEach(vs), ", ") \o "]"

Field(name, type, default) == [name |-> name, type |-> type, default |-> default]
Constant(name, type, value) == [name |-> name, type |-> type, value |-> value]
Interface(fields, constants) == [fields |-> fields, constants |-> constants]

NoInterface == Interface(<<>>, <<>>)

\* imported_interface.get_fields_and_field_types().keys()
FieldNames(iface) == [i \in 1..Len(iface.fields) |-> iface.fields[i].name]

\* imported_interface.__dict__ as the ordered list of its (key, value)
\* items: the constants and the <FIELD>__DEFAULT values first, then the
\* attributes of the class body, the member properties and the slots.
Item(key, value) == [key |-> key, value |-> value]

ConstantItems(iface) ==
    [i \in 1..Len(iface.constants) |->
        Item(iface.constants[i].name, IntValue(iface.constants[i].value))]

RECURSIVE DefaultItems(_)
DefaultItems(fs) ==
    IF Len(fs) = 0 THEN <<>>
    ELSE (IF Head(fs).default.kind = "none" THEN <<>>
          ELSE <<Item(Upper(Head(fs).name) \o "__DEFAULT", Head(fs).default)>>)
         \o DefaultItems(Tail(fs))

ClassBodyKeys ==
    <<"__module__", "__doc__", "__slots__", "_fields_and_field_types", "SLOT_TYPES",
      "__init__", "__repr__", "__eq__", "get_fields_and_field_types">>

ClassDict(iface) ==
    ConstantItems(iface)
    \o DefaultItems(iface.fields)
    \o [i \in 1..Len(ClassBodyKeys) |-> Item(ClassBodyKeys[i], SomeObject)]
    \o [i \in 1..Len(iface.fields) |-> Item(iface.fields[i].name, SomeObject)]
    \o [i \in 1..Len(iface.fields) |-> Item("_" \o iface.fields[i].name, SomeObject)]
    \o <<Item("__hash__", SomeObject)>>

\* imported_interface.__dict__[key]
DictHas(d, key) == \E i \in 1..Len(d) : d[i].key = key
DictGet(d, key) == d[CHOOSE i \in 1..Len(d) : d[i].key = key].value

(***************************************************************************)
(* utils.py: the compact-definition transform.                             *)
(***************************************************************************)
InitialIgnoredKeys ==
    <<"__slots__", "__doc__", "_fields_and_field_types", "SLOT_TYPES", "__init__",
      "__repr__", "__eq__", "__hash__", "get_fields_and_field_types", "__module__">>

BASIC_TYPE_CONVERSION ==
    [boolean |-> "bool", octet |-> "bytes", uint8 |-> "uint8", int8 |-> "int8",
     uint16 |-> "uint16", int16 |-> "int16", uint32 |-> "uint32", int32 |-> "int32",
     uint64 |-> "uint64", int64 |-> "int64", char |-> "str", float |-> "float32",
     double |-> "float64", short |-> "int", long |-> "int",
     string |-> "string", wstring |-> "wstring"]
    @@ ("unsigned short" :> "int") @@ ("unsigned long" :> "int")
    @@ ("long long" :> "int") @@ ("unsigned long long" :> "int")

EmptyCompact ==
    [constant_types |-> <<>>, constant_names |-> <<>>, links |-> <<>>,
     field_types |-> <<>>, field_names |-> <<>>]

\* The outcome of a helper that may raise: the dict as the helper left it.
Ok(cd) == [raised |-> FALSE, compact |-> cd]
Raised(cd) == [raised |-> TRUE, compact |-> cd]

\* fill_namespaced_type naming the member after the type it refers to.
fill_namespaced_type_TypeName(cd, field, field_type, size_sequence_str, default_str, vt) ==
    LET name == namespaced_name(vt)
        shown == IF Contains(field_type, "[")
                 THEN field_type \o size_sequence_str
                 ELSE Join(name, "/") \o size_sequence_str
    IN  [cd EXCEPT !.links = Append(@, name[1] \o "/msg/" \o name[3] \o ".html"),
                   !.field_types = Append(@, shown),
                   !.field_names = Append(@, name[3] \o default_str)]

\* fill_namespaced_type linking into the tree of the named type's own kind.
fill_namespaced_type_KindLink(cd, field, field_type, size_sequence_str, default_str, vt) ==
    LET name == namespaced_name(vt)
        shown == IF Contains(field_type, "[")
                 THEN field_type \o size_sequence_str
                 ELSE Join(name, "/") \o size_sequence_str
    IN  [cd EXCEPT !.links = Append(@, name[1] \o "/" \o name[2] \o "/" \o name[3] \o ".html"),
                   !.field_types = Append(@, shown),
                   !.field_names = Append(@, field \o default_str)]

fill_namespaced_type(cd, field, field_type, size_sequence_str, default_str, vt) ==
    LET name == namespaced_name(vt)
        pkg_name == name[1]
        msg_name == name[3]
        shown == IF Contains(field_type, "[")
                 THEN field_type \o size_sequence_str
                 ELSE Join(name, "/") \o size_sequence_str
    IN  [cd EXCEPT !.links = Append(@, pkg_name \o "/msg/" \o msg_name \o ".html"),
                   !.field_types = Append(@, shown),
                   !.field_names = Append(@, field \o default_str)]

\* Raises KeyError when the type is not a key of BASIC_TYPE_CONVERSION.
fill_basic_type(cd, field, field_type, size_sequence_str, default_str) ==
    IF ~Contains(field_type, "string<") /\ ~Contains(field_type, "[")
    THEN IF field_type \in DOMAIN BASIC_TYPE_CONVERSION
         THEN Ok([cd EXCEPT
                    !.field_types =
                        Append(@, BASIC_TYPE_CONVERSION[field_type] \o size_sequence_str),
                    !.links = Append(@, ""),
                    !.field_names = Append(@, field \o default_str)])
         ELSE Raised(cd)
    ELSE LET shown == IF Contains(field_type, "string<")
                      THEN Split(field_type, "<")[1] \o "<="
                           \o DropLast(Split(field_type, "<")[2])
                      ELSE field_type \o size_sequence_str
         IN  Ok([cd EXCEPT !.field_types = Append(@, shown),
                           !.links = Append(@, ""),
                           !.field_names = Append(@, field \o default_str)])

\* The loop over imported_interface.__dict__.keys().
\* The scan without the '__DEFAULT' test of line 332.
RECURSIVE ScanClassDict_NoDefaultTest(_, _, _, _)
ScanClassDict_NoDefaultTest(items, ignored_keys_, cd, defaults) ==
    IF Len(items) = 0
    THEN [compact |-> cd, fields_with_default_value |-> defaults]
    ELSE LET key == Head(items).key
             cd1 == IF ~InList(key, ignored_keys_)
                    THEN [cd EXCEPT !.constant_types = Append(@, key),
                                    !.constant_names = Append(@, Head(items).value)]
                    ELSE cd
             defaults1 == IF Contains(key, "__DEFAULT")
                          THEN Append(defaults, Lower(Remove(key, "__DEFAULT")))
                          ELSE defaults
         IN  ScanClassDict_NoDefaultTest(Tail(items), ignored_keys_, cd1, defaults1)

\* Lines 331-336: the loop over the class dict.
RECURSIVE ScanClassDict(_, _, _, _)
ScanClassDict(items, ignored_keys_, cd, defaults) ==
    IF Len(items) = 0
    THEN [compact |-> cd, fields_with_default_value |-> defaults]
    ELSE LET key == Head(items).key
             cd1 == IF ~InList(key, ignored_keys_) /\ ~Contains(key, "__DEFAULT")
                    THEN [cd EXCEPT !.constant_types = Append(@, key),
                                    !.constant_names = Append(@, Head(items).value)]
                    ELSE cd
             defaults1 == IF Contains(key, "__DEFAULT")
                          THEN Append(defaults, Lower(Remove(key, "__DEFAULT")))
                          ELSE defaults
         IN  ScanClassDict(Tail(items), ignored_keys_, cd1, defaults1)

\* handle_constants_and_default_values extending the ignored keys only after
\* the scan of the class dict.
handle_constants_and_default_values_LateIgnore(ignored, iface) ==
    LET ignored_keys_ == ignored \o FieldNames(iface)
                         \o [i \in 1..Len(iface.fields) |-> "_" \o iface.fields[i].name]
        scan == ScanClassDict(ClassDict(iface), ignored, EmptyCompact, <<>>)
    IN  [IGNORED_KEYS |-> ignored_keys_,
         compact |-> scan.compact,
         fields_with_default_value |-> scan.fields_with_default_value]

\* ignored_keys_ is the list IGNORED_KEYS itself, and += extends it in place:
\* the result carries the module-level list as the call leaves it.
handle_constants_and_default_values(ignored, iface) ==
    LET ignored_keys_ == ignored \o FieldNames(iface)
                         \o [i \in 1..Len(iface.fields) |-> "_" \o iface.fields[i].name]
        scan == ScanClassDict(ClassDict(iface), ignored_keys_, EmptyCompact, <<>>)
    IN  [IGNORED_KEYS |-> ignored_keys_,
         compact |-> scan.compact,
         fields_with_default_value |-> scan.fields_with_default_value]

\* get_default_value without the array.array branch.
get_default_value_ScalarOnly(iface, field, defaults) ==
    IF InList(field, defaults)
    THEN "=" \o IntToStr(DictGet(ClassDict(iface), Upper(field) \o "__DEFAULT").elems[1])
    ELSE ""

get_default_value(iface, field, defaults) ==
    IF InList(field, defaults)
    THEN LET default_value == DictGet(ClassDict(iface), Upper(field) \o "__DEFAULT")
         IN  IF default_value.kind = "array"
             THEN "=" \o StrList(default_value.elems)
             ELSE "=" \o IntToStr(default_value.elems[1])
    ELSE ""

\* Raises IndexError when field_type holds no '<'.
get_type_and_size_from_sequence(cd, field, field_type, default_value_str, slot_type) ==
    IF Len(Split(field_type, "<")) < 2
    THEN [raised |-> TRUE, compact |-> cd,
          field_type_compact |-> field_type, size_sequence_str |-> ""]
    ELSE
    LET type_sequence == DropLast(Split(field_type, "<")[2])
        cd1 == [cd EXCEPT !.field_names = Append(@, field \o default_value_str)]
        type_sequence_with_size == Split(type_sequence, ",")
        sized == Len(type_sequence_with_size) > 1
    IN  [raised |-> FALSE,
         compact |-> cd1,
         field_type_compact |->
            IF sized THEN type_sequence_with_size[1]
            ELSE IF ~Contains(field_type, "string<") THEN type_sequence
            ELSE field_type,
         size_sequence_str |->
            IF sized
            THEN IF IsBoundedSequence(slot_type)
                 THEN "[<=" \o type_sequence_with_size[2] \o "]"
                 ELSE "[" \o type_sequence_with_size[2] \o "]"
            ELSE "[]"]

\* One iteration of the loop of generate_compact_definition, for the k-th
\* member of the interface.
FieldIteration(iface, cd, defaults, k) ==
    LET field == iface.fields[k].name
        slot_type == iface.fields[k].type
        field_type == FieldTypeString(slot_type)
        default_value_str == get_default_value(iface, field, defaults)
        seq == IF Contains(field_type, "sequence") \/ Contains(field_type, "string<")
               THEN get_type_and_size_from_sequence(
                        cd, field, field_type, default_value_str, slot_type)
               ELSE [raised |-> FALSE, compact |-> cd,
                     field_type_compact |-> field_type, size_sequence_str |-> ""]
    IN  IF seq.raised THEN Raised(seq.compact)
        ELSE IF IsAbstractNestedType(slot_type)
        THEN IF IsNamespacedType(value_type(slot_type))
             THEN Ok(fill_namespaced_type(
                        seq.compact, field, seq.field_type_compact,
                        seq.size_sequence_str, default_value_str, value_type(slot_type)))
             ELSE fill_basic_type(seq.compact, field, seq.field_type_compact,
                                  seq.size_sequence_str, default_value_str)
        ELSE IF Len(Split(seq.field_type_compact, "/")) > 1
             THEN Ok(fill_namespaced_type(
                        seq.compact, field, seq.field_type_compact,
                        seq.size_sequence_str, default_value_str, slot_type))
             ELSE fill_basic_type(seq.compact, field, seq.field_type_compact,
                                  seq.size_sequence_str, default_value_str)

\* The whole loop, from member k on.
RECURSIVE FieldLoop(_, _, _, _)
FieldLoop(iface, cd, defaults, k) ==
    IF k > Len(iface.fields) THEN Ok(cd)
    ELSE LET step == FieldIteration(iface, cd, defaults, k)
         IN  IF step.raised THEN step
             ELSE FieldLoop(iface, step.compact, defaults, k + 1)

\* generate_compact_definition as a function of the module-level list and
\* the interface.
generate_compact_definition(ignored, iface) ==
    LET h == handle_constants_and_default_values(ignored, iface)
    IN  FieldLoop(iface, h.compact, h.fields_with_default_value, 1)

(***************************************************************************)
(* The interfaces the transform is run on.                                 *)
(***************************************************************************)
\* rosidl_parser.definition.BASIC_TYPES: every scalar type name of the IDL.
BasicTypeNames ==
    {"short", "long", "long long", "unsigned short", "unsigned long",
     "unsigned long long", "float", "double", "long double", "char", "wchar",
     "boolean", "octet", "int8", "uint8", "int16", "uint16", "int32", "uint32",
     "int64", "uint64"}

Sizes == {3, 10}
StringBounds == {0, 5}
Kinds == {"msg", "srv", "action"}

ElementTypes ==
    {BasicT(n) : n \in BasicTypeNames}
    \cup {StringT(n, b) : n \in {"string", "wstring"}, b \in StringBounds}
    \cup {NamedT("geo", k, "Pose") : k \in Kinds}

SlotTypes ==
    ElementTypes
    \cup {ArrayOf(t, n) : t \in ElementTypes, n \in Sizes}
    \cup {SequenceOf(t) : t \in ElementTypes}
    \cup {BoundedSequenceOf(t, n) : t \in ElementTypes, n \in Sizes}

Defaults == {NoDefault, IntValue(5), ArrayValue(<<1, 2, 3>>)}

\* ROS interface naming: member names are lower case, constants upper case.
MemberNames == {"ab", "name", "pose"}

ConstantLists ==
    {<<>>,
     <<Constant("MAX_SPEED", "int32", 5)>>,
     <<Constant("MAX_SPEED", "int32", 5), Constant("LOW", "int8", -3)>>}

\* Every declaration of one member, and the ones combined in interfaces of
\* several members.
Declarations == {[type |-> t, default |-> d] : t \in SlotTypes, d \in Defaults}

CoreDeclarations ==
    {[type |-> BasicT("int32"), default |-> NoDefault],
     [type |-> BasicT("float"), default |-> IntValue(5)],
     [type |-> StringT("string", 5), default |-> NoDefault],
     [type |-> SequenceOf(BasicT("int32")), default |-> ArrayValue(<<1, 2, 3>>)],
     [type |-> NamedT("geo", "srv", "Pose"), default |-> NoDefault],
     [type |-> BoundedSequenceOf(NamedT("geo", "msg", "Pose"), 3), default |-> NoDefault],
     [type |-> BasicT("wchar"), default |-> NoDefault]}

\* Member names are the keys of a dict: pairwise different.
NameLists(n) ==
    {s \in [1..n -> MemberNames] : \A i, j \in 1..n : s[i] = s[j] => i = j}

FieldLists(n, decls) ==
    {[i \in 1..n |-> Field(names[i], ds[i].type, ds[i].default)] :
        names \in NameLists(n), ds \in [1..n -> decls]}

Interfaces ==
    {Interface(fs, cs) :
        fs \in FieldLists(0, Declarations) \cup FieldLists(1, Declarations)
               \cup UNION {FieldLists(n, CoreDeclarations) : n \in 2..MaxFields},
        cs \in ConstantLists}

\* The interfaces of the runs of several calls.
HistoryInterfaces ==
    {Interface(<<>>, <<Constant("MAX_SPEED", "int32", 5)>>),
     Interface(<<Field("ab", BasicT("int32"), NoDefault)>>, <<>>),
     Interface(<<Field("ab", BasicT("int32"), IntValue(5))>>,
               <<Constant("MAX_SPEED", "int32", 5)>>),
     Interface(<<Field("x", SequenceOf(BasicT("int32")), ArrayValue(<<1, 2, 3>>)),
                 Field("pose", NamedT("geo", "msg", "Pose"), NoDefault)>>,
               <<Constant("LOW", "int8", -3)>>),
     Interface(<<Field("pose", StringT("string", 5), NoDefault),
                 Field("ab", ArrayOf(BasicT("boolean"), 3), NoDefault)>>,
               <<Constant("MAX_SPEED", "int32", 5), Constant("LOW", "int8", -3)>>),
     Interface(<<Field("x", BasicT("int32"), NoDefault),
                 Field("ab", BasicT("wchar"), NoDefault)>>,
               <<Constant("LOW", "int8", -3)>>)}

(***************************************************************************)
(* generate_compact_definition as a state machine: the call, one step per  *)
(* iteration of its loop, the return.                                      *)
(***************************************************************************)
NoCall == [called |-> FALSE, interface |-> NoInterface, raised |-> FALSE,
           compact |-> EmptyCompact]

NoOutcome == [interface |-> "", outcome |-> "none"]

NotResolved == [raised |-> FALSE, values |-> <<>>]

CompactInit ==
    /\ IGNORED_KEYS = InitialIgnoredKeys
    /\ imported_interface = NoInterface
    /\ compact = EmptyCompact
    /\ fields_with_default_value = <<>>
    /\ idx = 0
    /\ pc = "idle"
    /\ calls = 0
    /\ prev = NoCall

BatchInit ==
    /\ pcMain = "main"
    /\ kindIdx = 0
    /\ pending = <<>>
    /\ last = NoOutcome
    /\ files = {}

ResourceInit ==
    /\ resource = ""
    /\ resolved = NotResolved

NoService == [Request |-> NoInterface, Response |-> NoInterface]

SrvInit ==
    /\ imported_srv = NoService
    /\ buff = <<>>
    /\ ignored_keys = <<>>
    /\ srvIdx = 0
    /\ srvPc = "idle"

NoAction == [goal |-> NoInterface, result |-> NoInterface, feedback |-> NoInterface]

ActionInit ==
    /\ message = NoAction
    /\ compact_srv = <<>>
    /\ actIdx = 0
    /\ actPc = "idle"

EmptyLookup == [p \in {} |-> <<>>]

IndexInit ==
    /\ messages = EmptyLookup
    /\ services = EmptyLookup
    /\ actions = EmptyLookup
    /\ interface_packages = {}
    /\ index_pages = {}
    /\ indexPc = "idle"

NoDocument ==
    [interface |-> "", file_output_path |-> "", has_source |-> FALSE,
     assembles |-> FALSE, expands |-> FALSE, existing |-> {}]

DocInit ==
    /\ doc = NoDocument
    /\ docSteps = <<>>
    /\ docPc = "idle"

Init ==
    /\ CompactInit
    /\ BatchInit
    /\ ResourceInit
    /\ SrvInit
    /\ ActionInit
    /\ IndexInit
    /\ DocInit

\* Lines 416-418: the constants, the defaults, the module-level list.
Call(iface) ==
    /\ pc = "idle"
    /\ LET h == handle_constants_and_default_values(IGNORED_KEYS, iface)
       IN  /\ IGNORED_KEYS' = h.IGNORED_KEYS
           /\ compact' = h.compact
           /\ fields_with_default_value' = h.fields_with_default_value
    /\ imported_interface' = iface
    /\ idx' = 0
    /\ pc' = "fields"
    /\ calls' = calls + 1
    /\ UNCHANGED <<prev, batchVars, files, extVars>>

\* Lines 420-450: one member.
ProcessField ==
    /\ pc = "fields"
    /\ idx < Len(imported_interface.fields)
    /\ LET step == FieldIteration(imported_interface, compact,
                                  fields_with_default_value, idx + 1)
       IN  /\ compact' = step.compact
           /\ idx' = IF step.raised THEN idx ELSE idx + 1
           /\ pc' = IF step.raised THEN "raised" ELSE "fields"
    /\ UNCHANGED <<IGNORED_KEYS, imported_interface, fields_with_default_value,
                   calls, prev, batchVars, files, extVars>>

\* Line 452.
Return ==
    /\ pc = "fields"
    /\ idx = Len(imported_interface.fields)
    /\ pc' = "returned"
    /\ UNCHANGED <<IGNORED_KEYS, imported_interface, compact,
                   fields_with_default_value, idx, calls, prev, batchVars, files, extVars>>

\* The caller goes on to its next call (the next interface, the next
\* sub-message): the locals of the finished call are gone, IGNORED_KEYS stays.
CallerContinues ==
    /\ pc \in {"returned", "raised"}
    /\ calls < MaxCalls
    /\ prev' = [called |-> TRUE, interface |-> imported_interface,
                raised |-> (pc = "raised"), compact |-> compact]
    /\ imported_interface' = NoInterface
    /\ compact' = EmptyCompact
    /\ fields_with_default_value' = <<>>
    /\ idx' = 0
    /\ pc' = "idle"
    /\ UNCHANGED <<IGNORED_KEYS, calls, batchVars, files, extVars>>

Next ==
    \/ \E iface \in Interfaces : Call(iface)
    \/ ProcessField
    \/ Return

Spec == Init /\ [][Next]_vars

NextCalls ==
    \/ \E iface \in HistoryInterfaces : Call(iface)
    \/ ProcessField
    \/ Return
    \/ CallerContinues

SpecCalls == Init /\ [][NextCalls]_vars

(***************************************************************************)
(* main.py: the batch driver.                                              *)
(***************************************************************************)
\* resource_name with the test of line 68 turned into "fewer than three".
resource_name_AtLeastThree(name) ==
    IF ~Contains(name, "/")
    THEN [raised |-> FALSE, values |-> <<"", "", name>>]
    ELSE LET values == Split(name, "/")
         IN  IF Len(values) < 3
             THEN [raised |-> TRUE, values |-> <<>>]
             ELSE [raised |-> FALSE, values |-> values]

\* utils.resource_name: raises ValueError on a malformed name.
resource_name(name) ==
    IF ~Contains(name, "/")
    THEN [raised |-> FALSE, values |-> <<"", "", name>>]
    ELSE LET values == Split(name, "/")
         IN  IF Len(values) # 3
             THEN [raised |-> TRUE, values |-> <<>>]
             ELSE [raised |-> FALSE, values |-> values]

\* utils.write_template: output_file is opened for writing and gets content.
write_template(fs, content, output_file) ==
    {f \in fs : f.path # output_file} \cup {[path |-> output_file, content |-> content]}

\* The statements of generate_interface_documentation, lines 141-150.
DocStatements ==
    <<"resource_name", "open", "generate_text_from_spec", "evaluate_template",
      "write_template">>

\* Whether a statement of a run returns (or raises). has_source:
\* get_interface_path and open find the source file; assembles: the
\* generate_text_from_spec passed in returns (it raises on a member it cannot
\* render); expands: evaluate_template returns (it raises again whatever the
\* expansion raises).
StatementReturns(d, statement) ==
    CASE statement = "resource_name" -> ~resource_name(d.interface).raised
      [] statement = "open" -> d.has_source
      [] statement = "generate_text_from_spec" -> d.assembles
      [] statement = "evaluate_template" -> d.expands
      [] statement = "write_template" -> TRUE

\* The files with the output file opened for writing as soon as the source
\* is read.
FilesAfter_OpenedEarly(d, statement, fs) ==
    IF statement = "open" /\ d.has_source
    THEN write_template(fs, "", d.file_output_path)
    ELSE IF statement = "write_template"
    THEN write_template(fs, d.interface, d.file_output_path)
    ELSE fs

\* The files after a statement of a run: only write_template touches them.
\* The content of a page stands for the data it is expanded from.
FilesAfter(d, statement, fs) ==
    IF statement = "write_template"
    THEN write_template(fs, d.interface, d.file_output_path)
    ELSE fs

\* utils.generate_interface_documentation on one interface: what becomes of
\* it.
generate_interface_documentation(interface, has_source, assembles, expands) ==
    IF resource_name(interface).raised THEN "malformed"
    ELSE IF ~has_source THEN "missing_source"
    ELSE IF ~assembles THEN "unsupported"
    ELSE IF ~expands THEN "template_error"
    ELSE "written"

InterfaceTypes == <<"msg", "srv", "action">>

\* The values of get_message_interfaces() and its siblings: for each package
\* the names of its interfaces.
InterfaceNames == {"msg/Bool", "Bool"}

PackageName(i) == "pkg" \o IntToStr(i)

NameSeqs == UNION {[1..n -> InterfaceNames] : n \in 0..MaxInterfaces}

Lookups ==
    UNION {{[i \in 1..n |-> [package |-> PackageName(i), names |-> ns[i]]] :
                ns \in [1..n -> NameSeqs]} : n \in 0..MaxPackages}

\* The interfaces in the order the two loops of generate_interfaces visit them.
RECURSIVE Visits(_)
Visits(lookup) ==
    IF Len(lookup) = 0 THEN <<>>
    ELSE [j \in 1..Len(Head(lookup).names) |->
             [package |-> Head(lookup).package, name |-> Head(lookup).names[j]]]
         \o Visits(Tail(lookup))

\* main, lines 143-145: the next call of generate_interfaces, on the lookup
\* fetched for it. The machine starts where main issues the first of these
\* calls; the package index of line 140 comes before and is not part of it.
CallGenerateInterfaces ==
    /\ pcMain = "main"
    /\ kindIdx < Len(InterfaceTypes)
    /\ \E interfaces \in Lookups : pending' = Visits(interfaces)
    /\ kindIdx' = kindIdx + 1
    /\ pcMain' = "generate_interfaces"
    /\ UNCHANGED <<last, files, compactVars, extVars>>

\* generate_interfaces, lines 85-118: one interface. Nothing catches what
\* generate_interface_documentation raises: it leaves generate_interfaces
\* and main.
DocumentInterface ==
    /\ pcMain = "generate_interfaces"
    /\ pending # <<>>
    /\ \E has_source, assembles, expands \in BOOLEAN :
         LET interface == Head(pending).package \o "/" \o Head(pending).name
             file_output_path == "html/" \o interface \o ".html"
             outcome == generate_interface_documentation(interface, has_source,
                                                         assembles, expands)
         IN  /\ last' = [interface |-> interface, outcome |-> outcome]
             /\ files' = IF outcome = "written"
                         THEN write_template(files, interface, file_output_path)
                         ELSE files
             /\ pcMain' = IF outcome = "written" THEN "generate_interfaces" ELSE "aborted"
    /\ pending' = Tail(pending)
    /\ UNCHANGED <<kindIdx, compactVars, extVars>>

\* generate_interfaces returns once its loops are over.
ReturnToMain ==
    /\ pcMain = "generate_interfaces"
    /\ pending = <<>>
    /\ pcMain' = "main"
    /\ UNCHANGED <<kindIdx, pending, last, files, compactVars, extVars>>

\* main, line 147.
CopyCssStyle ==
    /\ pcMain = "main"
    /\ kindIdx = Len(InterfaceTypes)
    /\ pcMain' = "done"
    /\ UNCHANGED <<kindIdx, pending, last, files, compactVars, extVars>>

NextBatch ==
    \/ CallGenerateInterfaces
    \/ DocumentInterface
    \/ ReturnToMain
    \/ CopyCssStyle

SpecBatch == Init /\ [][NextBatch]_vars

(***************************************************************************)
(* utils.generate_interface_documentation on its own, statement by         *)
(* statement.                                                              *)
(***************************************************************************)
DocInterfaces ==
    {"pkg1/msg/Bool", "pkg2/srv/SetBool", "pkg1/Bool", "Bool", "pkg1/msg/a/Bool"}

\* The output file may be there from an earlier run.
Documents ==
    {[interface |-> i, file_output_path |-> "html/" \o i \o ".html",
      has_source |-> hs, assembles |-> a, expands |-> e,
      existing |-> IF old THEN {[path |-> "html/" \o i \o ".html", content |-> "old"]}
                   ELSE {}] :
        i \in DocInterfaces, hs \in BOOLEAN, a \in BOOLEAN, e \in BOOLEAN,
        old \in BOOLEAN}

InitDocument ==
    /\ CompactInit
    /\ pcMain = "main"
    /\ kindIdx = 0
    /\ pending = <<>>
    /\ last = NoOutcome
    /\ ResourceInit
    /\ SrvInit
    /\ ActionInit
    /\ IndexInit
    /\ doc \in Documents
    /\ files = doc.existing
    /\ docSteps = <<>>
    /\ docPc = "running"

\* The next statement, when it is the given one: it returns, or it raises
\* and the exception leaves generate_interface_documentation.
Statement(statement) ==
    /\ Len(docSteps) < Len(DocStatements)
    /\ DocStatements[Len(docSteps) + 1] = statement
    /\ IF StatementReturns(doc, statement)
       THEN /\ docSteps' = Append(docSteps, statement)
            /\ files' = FilesAfter(doc, statement, files)
            /\ docPc' = IF Len(docSteps) + 1 = Len(DocStatements)
                        THEN "returned" ELSE "running"
       ELSE /\ docPc' = "raised"
            /\ UNCHANGED <<docSteps, files>>
    /\ UNCHANGED <<doc, compactVars, batchVars, resourceVars, srvVars, actionVars,
                   indexVars>>

\* Line 141.
DecomposeIdentifier ==
    /\ docPc = "running"
    /\ Statement("resource_name")
\* Lines 142-144.
ReadSource ==
    /\ docPc = "running"
    /\ Statement("open")
\* Line 146.
AssembleDefinition ==
    /\ docPc = "running"
    /\ Statement("generate_text_from_spec")
\* Lines 147-149.
EvaluateTemplate ==
    /\ docPc = "running"
    /\ Statement("evaluate_template")
\* Line 150; generate_interface_documentation returns after it.
WriteTemplate ==
    /\ docPc = "running"
    /\ Statement("write_template")

NextDocument ==
    \/ DecomposeIdentifier
    \/ ReadSource
    \/ AssembleDefinition
    \/ EvaluateTemplate
    \/ WriteTemplate

SpecDocument == InitDocument /\ [][NextDocument]_vars

(***************************************************************************)
(* utils.resource_name on its own: one call on any identifier.             *)
(***************************************************************************)
Tokens == {"", "a", "std_msgs", "msg", "Bool"}

\* The identifiers of one to MaxTokens tokens.
Identifiers ==
    {Join(ts, "/") : ts \in UNION {[1..n -> Tokens] : n \in 1..MaxTokens}}

InitResource ==
    /\ CompactInit
    /\ BatchInit
    /\ resource \in Identifiers
    /\ resolved = NotResolved
    /\ SrvInit
    /\ ActionInit
    /\ IndexInit
    /\ DocInit

\* The call and its return or raise.
CallResourceName ==
    /\ resolved = NotResolved
    /\ resolved' = resource_name(resource)
    /\ resolved' # NotResolved
    /\ UNCHANGED <<resource, compactVars, batchVars, files, srvVars, actionVars, indexVars,
                   docVars>>

NextResource == CallResourceName

SpecResource == InitResource /\ [][NextResource]_vars

(***************************************************************************)
(* srv_utils._generate_srv_text_from_spec: the text of a service, one step *)
(* per sub-message.                                                        *)
(*                                                                         *)
(* buff is the list of the writes made to it; each write carries, next to  *)
(* its text, the sub-message and the dict key or member it was made for.   *)
(***************************************************************************)
SubMessages == <<"Request", "Response">>

\* rosidl_parser.definition.BASIC_TYPES
BASIC_TYPES == BasicTypeNames

Chunk(service, entry, text) == [service |-> service, entry |-> entry, text |-> text]

Separator == Chunk("", "", "<hr/>")

\* '%s' % value
StrValue(v) ==
    CASE v.kind = "scalar" -> IntToStr(v.elems[1])
      [] v.kind = "array" -> StrList(v.elems)
      [] OTHER -> "<object>"

\* Lines 54-58: the dict keys written as constants.
RECURSIVE ConstantChunks(_, _, _)
ConstantChunks(items, ignored, service) ==
    IF Len(items) = 0 THEN <<>>
    ELSE (IF InList(Head(items).key, ignored) THEN <<>>
          ELSE <<Chunk(service, Head(items).key,
                       " " \o Head(items).key \o "=" \o StrValue(Head(items).value)
                           \o "<br />")>>)
         \o ConstantChunks(Tail(items), ignored, service)

\* Lines 62-86: the members from the k-th on. utils has no _href: the two
\* writes that call it raise AttributeError.
RECURSIVE FieldChunks(_, _, _)
FieldChunks(fs, k, service) ==
    IF k > Len(fs) THEN [raised |-> FALSE, chunks |-> <<>>]
    ELSE LET field == fs[k].name
             slot_type == fs[k].type
             type_string == FieldTypeString(slot_type)
             rest == FieldChunks(fs, k + 1, service)
         IN  IF type_string \notin BASIC_TYPES /\ ~Contains(type_string, "string")
             THEN IF IsAbstractNestedType(slot_type)
                  THEN IF IsNamespacedType(value_type(slot_type))
                       THEN [raised |-> TRUE, chunks |-> <<>>]
                       ELSE rest
                  ELSE [raised |-> TRUE, chunks |-> <<>>]
             ELSE [rest EXCEPT !.chunks =
                      <<Chunk(service, field,
                              type_string \o " " \o field \o "<br />")>> \o @]

\* The iteration with the separator written after the other sub-message.
SubMessageText_SeparatorAfterResponse(srv, service, ignored) ==
    LET iface == srv[service]
        names == FieldNames(iface)
        ignored_keys_ == ignored \o names \o [i \in 1..Len(names) |-> "_" \o names[i]]
        constants == ConstantChunks(ClassDict(iface), ignored_keys_, service)
        members == FieldChunks(iface.fields, 1, service)
    IN  [raised |-> members.raised,
         ignored_keys |-> ignored_keys_,
         chunks |-> constants \o members.chunks
                    \o (IF ~members.raised /\ service # "Request"
                        THEN <<Separator>> ELSE <<>>)]

\* Lines 51-88: one iteration of the outer loop, on srv.Request or
\* srv.Response: the new ignored_keys, the writes made, and whether it
\* raised (the writes before the raise are made). The test of line 87
\* compares two classes: only Request is Request.
SubMessageText(srv, service, ignored) ==
    LET iface == srv[service]
        names == FieldNames(iface)
        ignored_keys_ == ignored \o names \o [i \in 1..Len(names) |-> "_" \o names[i]]
        constants == ConstantChunks(ClassDict(iface), ignored_keys_, service)
        members == FieldChunks(iface.fields, 1, service)
    IN  [raised |-> members.raised,
         ignored_keys |-> ignored_keys_,
         chunks |-> constants \o members.chunks
                    \o (IF ~members.raised /\ service = "Request"
                        THEN <<Separator>> ELSE <<>>)]

\* The sub-messages of the services assembled.
SrvInterfaces ==
    {Interface(<<>>, <<>>),
     Interface(<<Field("ab", BasicT("int32"), NoDefault)>>, <<>>),
     Interface(<<Field("name", StringT("string", 0), NoDefault),
                 Field("ab", BasicT("float"), IntValue(5))>>,
               <<Constant("MAX_SPEED", "int32", 5)>>),
     Interface(<<Field("ab", BasicT("boolean"), NoDefault),
                 Field("x", SequenceOf(BasicT("int32")), NoDefault),
                 Field("name", ArrayOf(StringT("string", 0), 3), NoDefault)>>,
               <<Constant("MAX_SPEED", "int32", 5), Constant("LOW", "int8", -3)>>),
     Interface(<<Field("x", BasicT("wchar"), NoDefault),
                 Field("ab", ArrayOf(BasicT("int32"), 3), NoDefault),
                 Field("y", BasicT("double"), NoDefault)>>,
               <<Constant("LOW", "int8", -3)>>),
     Interface(<<Field("ab", BasicT("int32"), NoDefault),
                 Field("pose", NamedT("geo", "msg", "Pose"), NoDefault)>>,
               <<Constant("LOW", "int8", -3)>>),
     Interface(<<Field("poses", SequenceOf(NamedT("geo", "msg", "Pose")), NoDefault),
                 Field("ab", BasicT("int32"), NoDefault)>>, <<>>),
     Interface(<<>>, <<Constant("MAX_SPEED", "int32", 5), Constant("LOW", "int8", -3)>>),
     Interface(<<Field("x", BasicT("uint8"), IntValue(5)),
                 Field("name", StringT("string", 5), NoDefault)>>, <<>>),
     Interface(<<Field("x", BoundedSequenceOf(BasicT("int32"), 3), NoDefault)>>, <<>>)}

Services == {[Request |-> rq, Response |-> rs] : rq, rs \in SrvInterfaces}

\* Lines 46-50: the service class is imported, ignored_keys is the literal.
InitSrv ==
    /\ CompactInit
    /\ BatchInit
    /\ ResourceInit
    /\ imported_srv \in Services
    /\ buff = <<>>
    /\ ignored_keys = InitialIgnoredKeys
    /\ srvIdx = 0
    /\ srvPc = "loop"
    /\ ActionInit
    /\ IndexInit
    /\ DocInit

\* Lines 51-88: the next of [Request, Response].
WriteSubMessage ==
    /\ srvPc = "loop"
    /\ srvIdx < Len(SubMessages)
    /\ LET step == SubMessageText(imported_srv, SubMessages[srvIdx + 1], ignored_keys)
       IN  /\ buff' = buff \o step.chunks
           /\ ignored_keys' = step.ignored_keys
           /\ srvIdx' = IF step.raised THEN srvIdx ELSE srvIdx + 1
           /\ srvPc' = IF step.raised THEN "raised" ELSE "loop"
    /\ UNCHANGED <<imported_srv, compactVars, batchVars, files, resourceVars, actionVars,
                   indexVars, docVars>>

\* Line 89.
ReturnSrvText ==
    /\ srvPc = "loop"
    /\ srvIdx = Len(SubMessages)
    /\ srvPc' = "returned"
    /\ UNCHANGED <<imported_srv, buff, ignored_keys, srvIdx, compactVars,
                   batchVars, files, resourceVars, actionVars, indexVars, docVars>>

NextSrv ==
    \/ WriteSubMessage
    \/ ReturnSrvText

SpecSrv == InitSrv /\ [][NextSrv]_vars

(***************************************************************************)
(* action_utils.generate_msg_text_from_spec: the merged definition of an   *)
(* action, one step per attribute.                                         *)
(***************************************************************************)
Attributes == <<"goal", "result", "feedback">>

\* The positional parameters of utils.generate_compact_definition, none of
\* them with a default, and the arguments action_utils calls it with.
CompactDefinitionParameters == 3
CompactDefinitionArguments == 2

\* A Python call with given positional arguments of a function of required
\* parameters without defaults: TypeError unless they match.
CallRaisesTypeError(given, required) == given # required

\* utils.copy_dict_with_suffix(compact_srv, definition, suffix): every list
\* of the definition goes into the merged dict under its key with the
\* suffix appended.
copy_dict_with_suffix(merged, definition, suffix) ==
    merged \o <<Item("constant_types_" \o suffix, definition.constant_types),
                Item("constant_names_" \o suffix, definition.constant_names),
                Item("links_" \o suffix, definition.links),
                Item("field_types_" \o suffix, definition.field_types),
                Item("field_names_" \o suffix, definition.field_names)>>

Actions ==
    {[goal |-> g, result |-> r, feedback |-> f] : g, r, f \in HistoryInterfaces}

\* Lines 44-50: the action is parsed, compact_srv is empty.
InitAction ==
    /\ CompactInit
    /\ BatchInit
    /\ ResourceInit
    /\ SrvInit
    /\ message \in Actions
    /\ compact_srv = <<>>
    /\ actIdx = 0
    /\ actPc = "loop"
    /\ IndexInit
    /\ DocInit

\* Lines 52-56: one iteration of the loop over the attributes, and the
\* return after the last one. The call of line 53 raises before
\* generate_compact_definition runs when its arguments do not bind.
AssembleSubMessage ==
    /\ actPc = "loop"
    /\ actIdx < Len(Attributes)
    /\ LET attribute == Attributes[actIdx + 1]
           h == handle_constants_and_default_values(IGNORED_KEYS, message[attribute])
           definition == generate_compact_definition(IGNORED_KEYS, message[attribute])
       IN  IF CallRaisesTypeError(CompactDefinitionArguments, CompactDefinitionParameters)
           THEN /\ actPc' = "raised"
                /\ UNCHANGED <<IGNORED_KEYS, compact_srv, actIdx>>
           ELSE /\ IGNORED_KEYS' = h.IGNORED_KEYS
                /\ compact_srv' = IF definition.raised THEN compact_srv
                                  ELSE copy_dict_with_suffix(compact_srv,
                                                             definition.compact, attribute)
                /\ actIdx' = IF definition.raised THEN actIdx ELSE actIdx + 1
                /\ actPc' = IF definition.raised THEN "raised"
                            ELSE IF actIdx + 1 = Len(Attributes) THEN "returned"
                            ELSE "loop"
    /\ UNCHANGED <<message, imported_interface, compact, fields_with_default_value,
                   idx, pc, calls, prev, batchVars, files, resourceVars, srvVars,
                   indexVars, docVars>>

NextAction == AssembleSubMessage

SpecAction == InitAction /\ [][NextAction]_vars

(***************************************************************************)
(* main.generate_interfaces_index: the index page of every package, one    *)
(* step per package.                                                       *)
(***************************************************************************)
\* The parameters of utils.generate_index, none of them with a default, and
\* the arguments generate_interfaces_index calls it with.
GenerateIndexParameters == 4
GenerateIndexArguments == 6

\* lookup[package] if the package is a key, [] otherwise (lines 52-58).
ListOf(lookup, package) == IF package \in DOMAIN lookup THEN lookup[package] ELSE <<>>

\* utils.generate_index: the page index-msg.html of the package directory,
\* listing the interfaces it is given.
generate_index(pages, package, file_directory, interfaces) ==
    pages \cup {[path |-> file_directory \o "/index-msg.html", package |-> package,
                 interface_list |-> interfaces]}

IndexPackages == {PackageName(1), PackageName(2)}

\* The lookups of one kind: some packages, each with its interfaces.
IndexLookups(kind) ==
    UNION {[ps -> {<<kind \o "/A">>, <<kind \o "/A", kind \o "/B">>}] :
              ps \in SUBSET IndexPackages}

\* Line 47: the packages of the three lookups.
InitIndex ==
    /\ CompactInit
    /\ BatchInit
    /\ ResourceInit
    /\ SrvInit
    /\ ActionInit
    /\ messages \in IndexLookups("msg")
    /\ services \in IndexLookups("srv")
    /\ actions \in IndexLookups("action")
    /\ interface_packages = DOMAIN messages \cup DOMAIN services \cup DOMAIN actions
    /\ index_pages = {}
    /\ indexPc = "loop"
    /\ DocInit

\* Lines 49-62: one package of the set, in whatever order the set yields
\* them. The call of line 61 raises before generate_index runs when its
\* arguments do not bind; where they bind, the interfaces are the three
\* lists.
IndexPackage ==
    /\ indexPc = "loop"
    /\ \E package_name \in interface_packages :
         LET msg_list == ListOf(messages, package_name)
             srv_list == ListOf(services, package_name)
             action_list == ListOf(actions, package_name)
             package_directory == "html/" \o package_name
         IN  IF CallRaisesTypeError(GenerateIndexArguments, GenerateIndexParameters)
             THEN /\ indexPc' = "raised"
                  /\ UNCHANGED <<interface_packages, index_pages>>
             ELSE /\ index_pages' = generate_index(index_pages, package_name,
                                                   package_directory,
                                                   msg_list \o srv_list \o action_list)
                  /\ interface_packages' = interface_packages \ {package_name}
                  /\ UNCHANGED indexPc
    /\ UNCHANGED <<messages, services, actions, compactVars, batchVars, files,
                   resourceVars, srvVars, actionVars, docVars>>

\* The loop is over: generate_interfaces_index returns.
ReturnIndex ==
    /\ indexPc = "loop"
    /\ interface_packages = {}
    /\ indexPc' = "returned"
    /\ UNCHANGED <<messages, services, actions, interface_packages, index_pages,
                   compactVars, batchVars, files, resourceVars, srvVars, actionVars,
                   docVars>>

NextIndex ==
    \/ IndexPackage
    \/ ReturnIndex

SpecIndex == InitIndex /\ [][NextIndex]_vars

(***************************************************************************)
(* Properties.                                                             *)
(***************************************************************************)
Fields == imported_interface.fields

\* The suffix a member's declaration asks for.
DeclaredSuffix(f) ==
    CASE f.default.kind = "none" -> ""
      [] f.default.kind = "scalar" -> "=" \o IntToStr(f.default.elems[1])
      [] f.default.kind = "array" -> "=" \o StrList(f.default.elems)

\* The annotation of an array of n, a sequence, a sequence of at most n.
SizeAnnotation(t) ==
    CASE t.wrap = "array" -> "[" \o IntToStr(t.size) \o "]"
      [] t.wrap = "useq" -> "[]"
      [] t.wrap = "bseq" -> "[<=" \o IntToStr(t.size) \o "]"

\* What the transform makes of type t as the only, plain member.
AsPlainField(t) ==
    generate_compact_definition(
        InitialIgnoredKeys, Interface(<<Field("f", value_type(t), NoDefault)>>, <<>>))

\* C1: once generate_compact_definition has returned, field_names holds
\* exactly one entry per declared member, in declaration order, each the
\* member's name followed only by its default-value suffix.
C1_FieldNamesInDeclarationOrder ==
    pc = "returned" =>
        compact.field_names =
            [i \in 1..Len(Fields) |-> Fields[i].name \o DeclaredSuffix(Fields[i])]

\* C2: after each member and at the return, field_names, field_types and
\* links have the same length, and so have constant_names and constant_types.
C2_ParallelLists ==
    pc \in {"fields", "returned"} =>
        /\ Len(compact.field_names) = Len(compact.field_types)
        /\ Len(compact.field_types) = Len(compact.links)
        /\ Len(compact.constant_names) = Len(compact.constant_types)

\* The link of a member of type t: into the msg tree for a named type or an
\* array / sequence of one, empty otherwise.
LinkOf(t) ==
    IF t.base = "named" THEN t.pkg \o "/msg/" \o t.name \o ".html" ELSE ""

\* C6: the link recorded for a member is "<package>/msg/<typeName>.html" when
\* its type is a named type or an array / sequence of one, whatever the kind
\* of the named type, and "" for every other member; a returned definition
\* has one link per member.
C6_LinksIntoMsgTree ==
    /\ \A i \in 1..Len(compact.links) : compact.links[i] = LinkOf(Fields[i].type)
    /\ Len(compact.links) = idx
    /\ pc = "returned" => Len(compact.links) = Len(Fields)

\* C6 happens: a member of a named type of kind srv and a member of a basic
\* type, both rendered.
C6_Witness ==
    /\ pc = "returned"
    /\ Len(Fields) = 2
    /\ Fields[1].type = NamedT("geo", "srv", "Pose")
    /\ Fields[2].type = BasicT("float")
    /\ compact.links = <<"geo/msg/Pose.html", "">>

IsPlainBasic(t) == t.wrap = "plain" /\ t.base = "basic"

\* C7: a member of a basic type never makes the transform raise, and its
\* link is "" and its display type an entry of the lookup table.
C7_BasicTypesTotal ==
    \A k \in 1..Len(Fields) :
        IsPlainBasic(Fields[k].type) =>
            /\ ~(pc = "raised" /\ idx = k - 1)
            /\ k <= idx =>
                /\ compact.links[k] = ""
                /\ \E n \in DOMAIN BASIC_TYPE_CONVERSION :
                        compact.field_types[k] = BASIC_TYPE_CONVERSION[n]

\* C8: the display type of an array or sequence of a basic type or string is
\* the display type of the element as a plain member followed by "[N]", "[]"
\* or "[<=N]", and its link is "".
C8_SizedDisplayType ==
    \A k \in 1..idx :
        LET t == Fields[k].type
        IN  (t.wrap # "plain" /\ t.base \in {"basic", "string"}
             /\ ~AsPlainField(t).raised) =>
                /\ compact.field_types[k] =
                        AsPlainField(t).compact.field_types[1] \o SizeAnnotation(t)
                /\ compact.links[k] = ""

\* C9: a plain string member is displayed "string", a plain string of at
\* most N characters "string[<=N]", both with the link "".
C9_StringDisplayType ==
    \A k \in 1..idx :
        LET t == Fields[k].type
        IN  (t.wrap = "plain" /\ t.base = "string" /\ t.name = "string") =>
                /\ compact.field_types[k] =
                        (IF t.bound = 0 THEN "string"
                         ELSE "string[<=" \o IntToStr(t.bound) \o "]")
                /\ compact.links[k] = ""

C4_NoSharedState ==
    /\ pc = "returned" =>
          compact = generate_compact_definition(InitialIgnoredKeys,
                                                imported_interface).compact
    /\ pc \in {"returned", "raised"} => IGNORED_KEYS = InitialIgnoredKeys

\* C5: two calls in a row on the same interface return identical compact
\* definitions.
C5_Idempotent ==
    (pc = "returned" /\ prev.called /\ prev.interface = imported_interface) =>
        /\ ~prev.raised
        /\ prev.compact = compact

\* C5 happens: the second of two calls on an interface with members, a
\* default and a constant has returned.
C5_Witness ==
    /\ pc = "returned"
    /\ prev.called
    /\ prev.interface = imported_interface
    /\ Len(Fields) > 0
    /\ Len(compact.constant_types) > 0
    /\ Len(fields_with_default_value) > 0

\* C3: an interface whose documentation fails does not stop the batch: the
\* driver is not aborted by it, and when the driver ends every interface of
\* every kind has been visited.
C3_FailureConfined ==
    /\ last.outcome \notin {"none", "written"} => pcMain # "aborted"
    /\ pcMain \in {"done", "aborted"} =>
          (pending = <<>> /\ kindIdx = Len(InterfaceTypes))

\* C11: a returned definition lists each constant in constant_names as its
\* name, "=" and its value, and the constant's type string in
\* constant_types; for the message of one constant MAX_SPEED of type int32
\* and value 5 and one member `name` of type string that is
\* constant_names = ["MAX_SPEED=5"], constant_types = ["int32"],
\* field_names = ["name"], field_types = ["string"], links = [""].
C11_ConstantEntries ==
    pc = "returned" =>
        LET cs == imported_interface.constants
        IN  /\ compact.constant_types = [i \in 1..Len(cs) |-> cs[i].type]
            /\ compact.constant_names =
                  [i \in 1..Len(cs) |-> cs[i].name \o "=" \o IntToStr(cs[i].value)]
            /\ imported_interface =
                  Interface(<<Field("name", StringT("string", 0), NoDefault)>>,
                            <<Constant("MAX_SPEED", "int32", 5)>>) =>
                  /\ compact.field_names = <<"name">>
                  /\ compact.field_types = <<"string">>
                  /\ compact.links = <<"">>

\* The number of '/' in s.
RECURSIVE Slashes(_)
Slashes(s) ==
    IF Len(s) = 0 THEN 0
    ELSE (IF CharAt(s, 1) = "/" THEN 1 ELSE 0) + Slashes(SubSeq(s, 2, Len(s)))

\* C12: resource_name makes ('', '', identifier) of an identifier without
\* '/', the three tokens in order of an identifier of exactly three
\* '/'-separated tokens, and raises, yielding nothing, on every other
\* identifier that holds a '/' (two tokens, four or more).
C12_ResourceName ==
    resolved # NotResolved =>
        CASE Slashes(resource) = 0 ->
                resolved = [raised |-> FALSE, values |-> <<"", "", resource>>]
          [] Slashes(resource) = 2 ->
                /\ ~resolved.raised
                /\ Len(resolved.values) = 3
                /\ \A i \in 1..3 : Slashes(resolved.values[i]) = 0
                /\ resolved.values[1] \o "/" \o resolved.values[2] \o "/"
                        \o resolved.values[3] = resource
          [] OTHER -> resolved = [raised |-> TRUE, values |-> <<>>]

\* C12 happens: an identifier of four tokens has been refused.
C12_Witness ==
    /\ resource = "a/std_msgs/msg/Bool"
    /\ resolved.raised

\* The position of name among the names of a list of records, 0 if absent.
PositionIn(name, records) ==
    IF \E i \in 1..Len(records) : records[i].name = name
    THEN CHOOSE i \in 1..Len(records) : records[i].name = name
    ELSE 0

\* Where the separator is in buff.
SeparatorAt == {i \in 1..Len(buff) : buff[i] = Separator}

\* The members srv_utils has a line for: the basic types and whatever holds
\* 'string'.
IsWritten(f) ==
    FieldTypeString(f.type) \in BASIC_TYPES \/ Contains(FieldTypeString(f.type), "string")

\* C13: the writes of a service come request first: every write for the
\* request precedes the separator and every write for the response follows
\* it; once the response is started every constant and every written member
\* of the request is there; within a sub-message the constants are written
\* in declaration order and so are the members; the separator is written at
\* most once, and exactly once, right after the last request write, in the
\* text returned.
C13_RequestThenSeparatorThenResponse ==
    /\ Cardinality(SeparatorAt) <= 1
    /\ \A i \in 1..Len(buff) : \A p \in SeparatorAt :
          /\ buff[i].service = "Request" => i < p
          /\ buff[i].service = "Response" => i > p
    /\ \A i \in 1..Len(buff) : buff[i].service = "Response" => SeparatorAt # {}
    /\ \A i, j \in 1..Len(buff) :
          (i < j /\ buff[i].service = buff[j].service /\ buff[i] # Separator) =>
              LET sub == imported_srv[buff[i].service]
              IN  /\ buff[i].service = "Request" \/ buff[j].service = "Response"
                  /\ (PositionIn(buff[i].entry, sub.constants) > 0
                      /\ PositionIn(buff[j].entry, sub.constants) > 0) =>
                        PositionIn(buff[i].entry, sub.constants)
                            < PositionIn(buff[j].entry, sub.constants)
                  /\ (PositionIn(buff[i].entry, sub.fields) > 0
                      /\ PositionIn(buff[j].entry, sub.fields) > 0) =>
                        PositionIn(buff[i].entry, sub.fields)
                            < PositionIn(buff[j].entry, sub.fields)
    /\ srvIdx >= 1 =>
          /\ \A k \in 1..Len(imported_srv.Request.constants) :
                \E i \in 1..Len(buff) :
                    /\ buff[i].service = "Request"
                    /\ buff[i].entry = imported_srv.Request.constants[k].name
          /\ \A k \in 1..Len(imported_srv.Request.fields) :
                IsWritten(imported_srv.Request.fields[k]) =>
                    \E i \in 1..Len(buff) :
                        /\ buff[i].service = "Request"
                        /\ buff[i].entry = imported_srv.Request.fields[k].name
    /\ srvPc = "returned" =>
          /\ Cardinality(SeparatorAt) = 1
          /\ \A p \in SeparatorAt :
                p = Cardinality({i \in 1..Len(buff) : buff[i].service = "Request"}) + 1

\* C13 happens: the text of a service with constants and members on both
\* sides has been returned.
C13_Witness ==
    /\ srvPc = "returned"
    /\ Len(imported_srv.Request.constants) = 2
    /\ Len(imported_srv.Request.fields) = 3
    /\ Len(imported_srv.Response.constants) = 1
    /\ Len(imported_srv.Response.fields) = 2
    /\ \E p \in SeparatorAt : 1 < p /\ p < Len(buff)

\* C14: assembling an action does not raise, and the dict it returns holds,
\* for goal, result and feedback in that order, the five lists of that
\* sub-message's compact definition under the keys with its suffix, each key
\* once.
C14_ActionMerged ==
    /\ actPc # "raised"
    /\ actPc = "returned" =>
          /\ Len(compact_srv) = 5 * Len(Attributes)
          /\ \A i, j \in 1..Len(compact_srv) :
                compact_srv[i].key = compact_srv[j].key => i = j
          /\ \A a \in 1..Len(Attributes) :
                compact_srv[5 * a].key = "field_names_" \o Attributes[a]

\* C15: when generate_interfaces_index is over, every package that is a key
\* of the message, service or action lookup has exactly one index page,
\* index-msg.html in its directory, built from its message, service and
\* action lists (an absent kind giving the empty list), and no other package
\* has one.
C15_OneIndexPerPackage ==
    indexPc \in {"returned", "raised"} =>
        /\ \A p \in DOMAIN messages \cup DOMAIN services \cup DOMAIN actions :
              /\ Cardinality({page \in index_pages : page.package = p}) = 1
              /\ \A page \in index_pages :
                    page.package = p =>
                        /\ page.path = "html/" \o p \o "/index-msg.html"
                        /\ page.interface_list =
                              ListOf(messages, p) \o ListOf(services, p)
                                  \o ListOf(actions, p)
        /\ \A page \in index_pages :
              page.package \in DOMAIN messages \cup DOMAIN services \cup DOMAIN actions

\* The statements before write_template.
BeforeWriting == SubSeq(DocStatements, 1, Len(DocStatements) - 1)

\* C16: generate_interface_documentation touches the output files only in
\* write_template, after the identifier has been decomposed, the source
\* read, the compact definition assembled and the template evaluated, in
\* that order and each without raising; a statement that raises ends the run
\* with the later statements not executed and the files as they were before
\* the run, and without the source nothing from the compact definition on
\* is executed.
C16_NoPartialPage ==
    /\ files # doc.existing =>
          /\ docPc = "returned"
          /\ docSteps = DocStatements
          /\ Slashes(doc.interface) \in {0, 2}
          /\ doc.has_source /\ doc.assembles /\ doc.expands
    /\ docPc = "returned" =>
          /\ docSteps = DocStatements
          /\ files = {f \in doc.existing : f.path # doc.file_output_path}
                     \cup {[path |-> doc.file_output_path, content |-> doc.interface]}
    /\ docPc \in {"running", "raised"} =>
          /\ files = doc.existing
          /\ Len(docSteps) < Len(DocStatements)
          /\ docSteps = SubSeq(BeforeWriting, 1, Len(docSteps))
    /\ (docPc = "raised" /\ ~doc.has_source) => Len(docSteps) <= 1
    /\ (docPc = "raised" /\ ~doc.assembles) => Len(docSteps) <= 2
    /\ (docPc = "raised" /\ ~doc.expands) => Len(docSteps) <= 3

\* C16 happens: the source of a well-formed identifier is not found, the run
\* has ended there and the page of an earlier run is still as it was.
C16_Witness ==
    /\ docPc = "raised"
    /\ doc.interface = "pkg1/msg/Bool"
    /\ ~doc.has_source
    /\ docSteps = <<"resource_name">>
    /\ files = {[path |-> "html/pkg1/msg/Bool.html", content |-> "old"]}

\* C17: once handle_constants_and_default_values has run, the two constant
\* lists hold one entry per declared constant, in declaration order, the
\* constant's name in the one and its value in the other, and nothing else:
\* no bookkeeping or method key, no member name, no '_'-prefixed member
\* name, no <FIELD>__DEFAULT key; without constants both lists are empty.
C17_ConstantsOnly ==
    pc # "idle" =>
        LET cs == imported_interface.constants
        IN  /\ compact.constant_types = [i \in 1..Len(cs) |-> cs[i].name]
            /\ compact.constant_names = [i \in 1..Len(cs) |-> IntValue(cs[i].value)]
            /\ \A i \in 1..Len(compact.constant_types) :
                  /\ ~InList(compact.constant_types[i], InitialIgnoredKeys)
                  /\ ~Contains(compact.constant_types[i], "__DEFAULT")
                  /\ \A k \in 1..Len(Fields) :
                        compact.constant_types[i]
                            \notin {Fields[k].name, "_" \o Fields[k].name}

\* C17 happens: after an earlier call, the constant of an interface that
\* also has a member with a default has been collected.
C17_Witness ==
    /\ pc = "returned"
    /\ prev.called
    /\ Len(Fields) > 0
    /\ Fields[1].default # NoDefault
    /\ compact.constant_types = <<"MAX_SPEED">>
    /\ compact.constant_names = <<IntValue(5)>>

\* C18: the display type of a member of a named type is "pkg/kind/typeName",
\* and that of an array, a sequence or a bounded sequence of a named type is
\* the same string followed by "[N]", "[]" or "[<=N]"; the link is the one
\* of the plain named type in every case.
C18_NamedDisplayType ==
    \A k \in 1..idx :
        LET t == Fields[k].type
        IN  t.base = "named" =>
                /\ compact.field_types[k] =
                        t.pkg \o "/" \o t.kind \o "/" \o t.name
                            \o (IF t.wrap = "plain" THEN "" ELSE SizeAnnotation(t))
                /\ compact.links[k] = LinkOf(value_type(t))

\* C19 as stated: the field_names entry of a rendered member of a plain
\* named type is the bare name of the type it refers to and not the member's
\* declared identifier, while every other rendered member, arrays and
\* sequences of named types included, is entered under its declared
\* identifier.
C19_BareTypeName ==
    \A k \in 1..idx :
        LET f == Fields[k]
        IN  IF IsNamespacedType(f.type)
            THEN /\ InList(f.type.name \o DeclaredSuffix(f), compact.field_names)
                 /\ ~InList(f.name \o DeclaredSuffix(f), compact.field_names)
            ELSE InList(f.name \o DeclaredSuffix(f), compact.field_names)

\* C19, amended: every rendered member, one of a plain named type included,
\* is entered in field_names under its declared identifier followed by its
\* default-value suffix, never under the bare name of the type it refers to;
\* and every entry of field_names is the declared identifier, with its
\* suffix, of a member.
C19_DeclaredIdentifier ==
    /\ \A k \in 1..idx :
          LET f == Fields[k]
          IN  /\ InList(f.name \o DeclaredSuffix(f), compact.field_names)
              /\ f.type.base = "named" =>
                    ~InList(f.type.name \o DeclaredSuffix(f), compact.field_names)
    /\ \A i \in 1..Len(compact.field_names) :
          \E k \in 1..Len(Fields) :
              compact.field_names[i] = Fields[k].name \o DeclaredSuffix(Fields[k])

\* C19 happens: a member `pose` of the plain named type geo/srv/Pose has been
\* rendered next to a bounded sequence of a named type.
C19_Witness ==
    /\ pc = "returned"
    /\ Len(Fields) = 2
    /\ Fields[1].name = "pose"
    /\ Fields[1].type = NamedT("geo", "srv", "Pose")
    /\ Fields[2].type = BoundedSequenceOf(NamedT("geo", "msg", "Pose"), 3)
    /\ compact.field_names[1] = "pose"

====
